---------------------------- MODULE Spec2Model ----------------------------
(***************************************************************************)
(* Model of the two scripts of the repository:                             *)
(*   WarframeMarketAnalysys.py      the order fetcher: cache, fetch_data,  *)
(*                                  get_item_orders, process_item_data and *)
(*                                  the round loop of main;                *)
(*   WarframeMarketDataCollector.py the item collector: fetch_item_data    *)
(*                                  under limited_fetch's semaphore.       *)
(* A run is one of the two scripts (variable prog).  Every asyncio task is *)
(* a process; an action is the code a task runs between two suspension     *)
(* points (await of a sleep, of a response, of a semaphore).               *)
(* Times of the order fetcher are in tenths of a second (INITIAL_DELAY is  *)
(* 0.1 s), times of the collector in seconds.                              *)
(***************************************************************************)
EXTENDS Integers, Sequences, FiniteSets, TLC

VARIABLES
    prog,           \* which script runs: "analysys" or "collector"
    \* ---- WarframeMarketAnalysys.py
    cache_file,     \* item_orders_cache.json: [state: absent | corrupt | unreadable | valid, data]
    items_file,     \* all_items_data.json as main finds it: [state: missing | corrupt | valid, items]
    cache,          \* the module-level dict cache
    all_tasks,      \* main's list all_tasks, one entry (the item's url_name) per task
    mpc,            \* where main is
    tpc,            \* where each process_item_data task is
    current_delay,  \* fetch_data's current_delay of the innermost call of each task
    orders,         \* what get_item_orders returned to each task
    task_result,    \* what process_item_data returned
    results,        \* main's results
    filtered_results,
    processed_items_count,
    new_tasks,      \* main's new_tasks (line 186)
    output,         \* orders_data.json
    error,          \* the exception main's handlers caught
    requested,      \* keys for which an HTTP request was issued (the transport's record)
    cache0,         \* the cache as loaded at startup
    \* ---- WarframeMarketDataCollector.py
    cmain,          \* where the collector's main is
    semaphore,      \* permits of limited_fetch's semaphore in use
    cpc,            \* where each limited_fetch / fetch_item_data call is
    attempt,        \* fetch_item_data's loop variable
    delay,          \* fetch_item_data's delay
    wait,           \* the duration of the asyncio.sleep the call is suspended in (0: none)
    cres,           \* what the call returned
    nreq,           \* HTTP requests the call issued (the transport's record)
    seen,           \* classes of the responses the call received (the transport's record)
    all_items_data  \* keys stored by the collector's main

avars == <<cache_file, items_file, cache, all_tasks, mpc, tpc, current_delay, orders, task_result,
           results, filtered_results, processed_items_count, new_tasks, output, error,
           requested, cache0>>
cvars == <<cmain, semaphore, cpc, attempt, delay, wait, cres, nreq, seen, all_items_data>>
vars == <<prog, avars, cvars>>

\* ------------------------------------------------------------------ bounds
\* Items in all_items_data.json (tasks of the order fetcher's main).
NumItems == 2
\* Items the API lists (limited_fetch calls of the collector's main).
NumCalls == 2

\* ------------------------------------------------- constants of the program
\* WarframeMarketAnalysys.py, in tenths of a second: INITIAL_DELAY = 0.1,
\* MAX_DELAY = 30.0, the asyncio.sleep(60) of line 69.
INITIAL_DELAY == 1
MAX_DELAY == 300
PAUSE == 600
CONCURRENT_REQUESTS == 5
\* WarframeMarketDataCollector.py, in seconds: the defaults of fetch_item_data, the
\* size of main's semaphore, the Retry-After assumed when the header is absent.
retries == 5
initial_delay == 1
max_delay == 60
SEMAPHORE_SIZE == 50
RETRY_AFTER_DEFAULT == 1

\* --------------------------------------------------------------- values
\* Python's None (a failed fetch, an item that gave no result).
None == [none |-> TRUE]
\* A call that has not returned yet.
NotReturned == [returned |-> FALSE]
NoError == "none"
Unwritten == [written |-> FALSE]
Min(a, b) == IF a < b THEN a ELSE b
Range(s) == {s[i] : i \in DOMAIN s}
EmptyMap == <<>>

\* The orders payloads a response or a cache entry can hold: "full" has online buy and
\* sell orders, "thin" has orders but no online buyer or no online seller.
Payloads == {[orders |-> "full"], [orders |-> "thin"]}

\* The store as a file: absent, holding a JSON object, holding text json.load rejects,
\* or a file open() cannot read.
Absent == [state |-> "absent"]
Corrupt == [state |-> "corrupt"]
Unreadable == [state |-> "unreadable"]
Valid(m) == [state |-> "valid", data |-> m]

\* The url_names of the items of all_items_data.json: item i has url_name i, all distinct.
Keys(n) == [i \in 1..n |-> i]
Maps(n) == UNION {[S -> Payloads] : S \in SUBSET (1..n)}
CacheFiles(n) == {Absent, Corrupt, Unreadable} \cup {Valid(m) : m \in Maps(n)}
ItemsFiles(n) == {[state |-> "missing"], [state |-> "corrupt"],
                  [state |-> "valid", items |-> Keys(n)]}

Tasks == DOMAIN tpc

\* =========================================================================
\*                        WarframeMarketAnalysys.py
\* =========================================================================

\* A cache write that gives the event loop a chance to run other tasks, as it would
\* with an await between lines 85 and 88.
WritingNever == FALSE

\* A task is in the middle of the synchronous cache write of get_item_orders (lines
\* 85-88 hold no await): the event loop runs nothing else until it is through.
Writing == \E t \in Tasks : tpc[t] \in {"put", "dump"}

\* Lines 34-42: the in-memory cache after the module-level load of CACHE_FILE.
LoadedCache(file) ==
    IF file.state = "valid" THEN file.data ELSE EmptyMap

\* Lines 33-42, run at import: an absent file leaves cache = {}, a JSONDecodeError is
\* logged and gives cache = {}, any other error of open/json.load is not caught and
\* ends the program.
Import ==
    /\ prog = "analysys"
    /\ mpc = "import"
    /\ IF cache_file.state = "unreadable"
       THEN /\ mpc' = "fatal"
            /\ error' = "OSError"
            /\ UNCHANGED <<cache, cache0>>
       ELSE /\ mpc' = "main"
            /\ cache' = LoadedCache(cache_file)
            /\ cache0' = LoadedCache(cache_file)
            /\ UNCHANGED error
    /\ UNCHANGED <<cache_file, items_file, all_tasks, tpc, current_delay, orders,
                   task_result, results, filtered_results, processed_items_count,
                   new_tasks, output, requested>>
    /\ UNCHANGED <<prog, cvars>>

\* Lines 156-173: main reads all_items_data.json (FileNotFoundError and JSONDecodeError
\* go to the handlers of lines 201-206), creates one process_item_data task per item and
\* awaits them all in tqdm_asyncio.gather.
MainStart ==
    /\ prog = "analysys"
    /\ mpc = "main"
    /\ IF items_file.state = "valid"
       THEN /\ all_tasks' = items_file.items
            /\ tpc' = [t \in DOMAIN items_file.items |-> "new"]
            /\ current_delay' = [t \in DOMAIN items_file.items |-> INITIAL_DELAY]
            /\ orders' = [t \in DOMAIN items_file.items |-> NotReturned]
            /\ task_result' = [t \in DOMAIN items_file.items |-> None]
            /\ mpc' = "gather"
            /\ UNCHANGED error
       ELSE /\ error' = IF items_file.state = "missing" THEN "FileNotFoundError"
                        ELSE "JSONDecodeError"
            /\ mpc' = "done"
            /\ UNCHANGED <<all_tasks, tpc, current_delay, orders, task_result>>
    /\ UNCHANGED <<cache_file, items_file, cache, results, filtered_results,
                   processed_items_count, new_tasks, output, requested, cache0>>
    /\ UNCHANGED <<prog, cvars>>

\* get_item_orders without its cache check: every key is fetched.
CacheHitNever(k) == FALSE

\* Line 79: the cache check of get_item_orders.
CacheHit(k) == k \in DOMAIN cache

\* Lines 116-138 of process_item_data: None without online orders or without a buy or
\* a sell price, the price record of the item otherwise.
ProcessOrders(k, o) ==
    IF o = [orders |-> "full"] THEN [item_name |-> k] ELSE None

\* Line 55: every call of fetch_data builds a semaphore of its own,
\* asyncio.Semaphore(CONCURRENT_REQUESTS), and enters it: its value is that of a new
\* semaphore whatever the other calls hold.
SemaphoreValue(t) == CONCURRENT_REQUESTS

\* Inside the `async with` of line 55: sleeping (57, 69) or awaiting the response (58).
InSection(t) == tpc[t] \in {"sleep", "http", "pause"}

\* Lines 105-120 up to the first suspension: the name check of process_item_data, the
\* cache check of get_item_orders and, on a miss, the entry into fetch_data, which
\* suspends in asyncio.sleep(current_delay) inside its semaphore.
StartTask(t) ==
    /\ prog = "analysys"
    /\ mpc = "gather"
    /\ ~Writing
    /\ tpc[t] = "new"
    /\ \E named \in BOOLEAN :
        IF ~named
        THEN /\ tpc' = [tpc EXCEPT ![t] = "done"]
             /\ task_result' = [task_result EXCEPT ![t] = None]
             /\ UNCHANGED <<orders, current_delay>>
        ELSE IF CacheHit(all_tasks[t])
        THEN /\ orders' = [orders EXCEPT ![t] = cache[all_tasks[t]]]
             /\ task_result' = [task_result EXCEPT
                                  ![t] = ProcessOrders(all_tasks[t], cache[all_tasks[t]])]
             /\ tpc' = [tpc EXCEPT ![t] = "done"]
             /\ UNCHANGED current_delay
        ELSE /\ SemaphoreValue(t) > 0
             /\ current_delay' = [current_delay EXCEPT ![t] = INITIAL_DELAY]
             /\ tpc' = [tpc EXCEPT ![t] = "sleep"]
             /\ UNCHANGED <<orders, task_result>>
    /\ UNCHANGED <<cache_file, items_file, cache, all_tasks, mpc, results,
                   filtered_results, processed_items_count, new_tasks, output, error,
                   requested, cache0>>
    /\ UNCHANGED <<prog, cvars>>

\* Lines 57-58: the sleep is over, session.get is issued and the call awaits the response.
Request(t) ==
    /\ prog = "analysys"
    /\ mpc = "gather"
    /\ ~Writing
    /\ tpc[t] = "sleep"
    /\ tpc' = [tpc EXCEPT ![t] = "http"]
    /\ requested' = requested \cup {all_tasks[t]}
    /\ UNCHANGED <<cache_file, items_file, cache, all_tasks, mpc, current_delay, orders,
                   task_result, results, filtered_results, processed_items_count,
                   new_tasks, output, error, cache0>>
    /\ UNCHANGED <<prog, cvars>>

\* The doubling of line 65 without its cap.
NextDelayUncapped(d) == d * 2

\* Line 65: the delay of the recursive call after a 429 below the ceiling.
NextDelay(d) == Min(d * 2, MAX_DELAY)

\* The failures fetch_data turns into None: another HTTP status (lines 71-73), an
\* aiohttp.ClientError, a timeout, a JSONDecodeError (lines 74-76).
FetchErrors == {"http_error", "client_error", "timeout", "decode"}

\* A cache update without the test of line 84: whatever the fetch gave is stored.
StoredUnchecked(c, k, o) ==
    [x \in DOMAIN c \cup {k} |-> IF x = k THEN o ELSE c[x]]

\* Lines 84-85: the in-memory cache once get_item_orders holds the answer o for key k;
\* o is stored under k only if it is the payload.orders of a response.
Stored(c, k, o) ==
    IF o \in Payloads
    THEN [x \in DOMAIN c \cup {k} |-> IF x = k THEN o ELSE c[x]]
    ELSE c

\* Lines 59-60 and 84-85: a 200 whose JSON holds payload.orders; get_item_orders stores
\* the orders in the in-memory cache and goes on, without suspending, to rewrite the file.
RespondOrders(t) ==
    /\ prog = "analysys"
    /\ mpc = "gather"
    /\ ~Writing
    /\ tpc[t] = "http"
    /\ \E p \in Payloads :
        /\ cache' = Stored(cache, all_tasks[t], p)
        /\ orders' = [orders EXCEPT ![t] = p]
    /\ tpc' = [tpc EXCEPT ![t] = "put"]
    /\ UNCHANGED <<cache_file, items_file, all_tasks, mpc, current_delay, task_result,
                   results, filtered_results, processed_items_count, new_tasks, output,
                   error, requested, cache0>>
    /\ UNCHANGED <<prog, cvars>>

\* Lines 61-70: a 429. Below MAX_DELAY fetch_data calls itself with the doubled delay
\* (a new semaphore, a new sleep); at MAX_DELAY it sleeps 60 s first.
RespondTooManyRequests(t) ==
    /\ prog = "analysys"
    /\ mpc = "gather"
    /\ ~Writing
    /\ tpc[t] = "http"
    /\ IF current_delay[t] < MAX_DELAY
       THEN /\ current_delay' = [current_delay EXCEPT ![t] = NextDelay(current_delay[t])]
            /\ tpc' = [tpc EXCEPT ![t] = "sleep"]
       ELSE /\ tpc' = [tpc EXCEPT ![t] = "pause"]
            /\ UNCHANGED current_delay
    /\ UNCHANGED <<cache_file, items_file, cache, all_tasks, mpc, orders, task_result,
                   results, filtered_results, processed_items_count, new_tasks, output,
                   error, requested, cache0>>
    /\ UNCHANGED <<prog, cvars>>

\* A fetch_data that goes on at the ceiling after its pause.
RestartDelayAtCeiling == MAX_DELAY

\* Line 70: the delay fetch_data is called with again after the pause of line 69.
RestartDelay == INITIAL_DELAY

\* Lines 69-70: the 60 s pause is over; fetch_data calls itself with INITIAL_DELAY.
PauseOver(t) ==
    /\ prog = "analysys"
    /\ mpc = "gather"
    /\ ~Writing
    /\ tpc[t] = "pause"
    /\ current_delay' = [current_delay EXCEPT ![t] = RestartDelay]
    /\ tpc' = [tpc EXCEPT ![t] = "sleep"]
    /\ UNCHANGED <<cache_file, items_file, cache, all_tasks, mpc, orders, task_result,
                   results, filtered_results, processed_items_count, new_tasks, output,
                   error, requested, cache0>>
    /\ UNCHANGED <<prog, cvars>>

\* Lines 71-76 and 89-91, 116-120: fetch_data returns None on any other failure, or a
\* JSON without payload.orders; get_item_orders returns None, process_item_data None.
RespondFailure(t) ==
    /\ prog = "analysys"
    /\ mpc = "gather"
    /\ ~Writing
    /\ tpc[t] = "http"
    /\ \E kind \in FetchErrors \cup {"no_orders"} :
        /\ orders' = [orders EXCEPT ![t] = None]
        /\ task_result' = [task_result EXCEPT ![t] = ProcessOrders(all_tasks[t], None)]
    /\ cache' = Stored(cache, all_tasks[t], None)
    /\ tpc' = [tpc EXCEPT ![t] = "done"]
    /\ UNCHANGED <<cache_file, items_file, all_tasks, mpc, current_delay,
                   results, filtered_results, processed_items_count, new_tasks, output,
                   error, requested, cache0>>
    /\ UNCHANGED <<prog, cvars>>

\* Line 86: open(CACHE_FILE, "w") truncates the file; until json.dump has written, the
\* file holds no JSON document.
PutOpen(t) ==
    /\ prog = "analysys"
    /\ tpc[t] = "put"
    /\ cache_file' = Corrupt
    /\ tpc' = [tpc EXCEPT ![t] = "dump"]
    /\ UNCHANGED <<items_file, cache, all_tasks, mpc, current_delay, orders, task_result,
                   results, filtered_results, processed_items_count, new_tasks, output,
                   error, requested, cache0>>
    /\ UNCHANGED <<prog, cvars>>

\* A put that opens the file and writes nothing.
DumpedNothing(c) == Corrupt

\* Line 87: what json.dump(cache, f) leaves in the file.
Dumped(c) == Valid(c)

\* Lines 87-88 and 116-138: json.dump writes the whole in-memory cache, the file is
\* closed, get_item_orders returns the orders and process_item_data its result.
PutDump(t) ==
    /\ prog = "analysys"
    /\ tpc[t] = "dump"
    /\ cache_file' = Dumped(cache)
    /\ task_result' = [task_result EXCEPT ![t] = ProcessOrders(all_tasks[t], orders[t])]
    /\ tpc' = [tpc EXCEPT ![t] = "done"]
    /\ UNCHANGED <<items_file, cache, all_tasks, mpc, current_delay, orders,
                   results, filtered_results, processed_items_count, new_tasks, output,
                   error, requested, cache0>>
    /\ UNCHANGED <<prog, cvars>>

\* Line 175 (and 188): the results that are not None.
FilterResults(res) == SelectSeq(res, LAMBDA r : r # None)

\* Line 180 with its test inverted: the indices of the results that are not None.
FailedTasksIndicesInverted(res) ==
    SelectSeq([i \in 1..Len(res) |-> i], LAMBDA i : res[i] # None)

\* Line 180: the indices of the results that are None.
FailedTasksIndices(res) ==
    SelectSeq([i \in 1..Len(res) |-> i], LAMBDA i : res[i] = None)

\* Lines 173-199: the gather of line 173 returns when every task has; main filters the
\* results and enters the while loop. With a failed task it suspends in the 10 s sleep
\* of line 185; otherwise it writes orders_data.json and ends.
GatherDone ==
    /\ prog = "analysys"
    /\ mpc = "gather"
    /\ \A t \in Tasks : tpc[t] = "done"
    /\ results' = [t \in Tasks |-> task_result[t]]
    /\ filtered_results' = FilterResults(results')
    /\ processed_items_count' = Len(filtered_results')
    /\ IF processed_items_count' < Len(all_tasks) /\ FailedTasksIndices(results') # <<>>
       THEN /\ mpc' = "sleep10"
            /\ UNCHANGED output
       ELSE /\ mpc' = "done"
            /\ output' = [written |-> TRUE, data |-> filtered_results']
    /\ UNCHANGED <<cache_file, items_file, cache, all_tasks, tpc, current_delay, orders,
                   task_result, new_tasks, error, requested, cache0>>
    /\ UNCHANGED <<prog, cvars>>

\* Lines 185-187 and 207-214: after the sleep main collects the failed tasks and calls
\* asyncio.gather(*new_tasks, desc=..., total=...). asyncio.gather takes no such keyword
\* arguments: the call raises TypeError before any task runs, the handler of line 207
\* prints it, and main ends without having written orders_data.json.
RetryRound ==
    /\ prog = "analysys"
    /\ mpc = "sleep10"
    /\ new_tasks' = [j \in DOMAIN FailedTasksIndices(results) |->
                        all_tasks[FailedTasksIndices(results)[j]]]
    /\ error' = "TypeError"
    /\ mpc' = "done"
    /\ UNCHANGED <<cache_file, items_file, cache, all_tasks, tpc, current_delay, orders,
                   task_result, results, filtered_results, processed_items_count, output,
                   requested, cache0>>
    /\ UNCHANGED <<prog, cvars>>

\* The state of the order fetcher before the module is imported, for an input of n items.
InitAnalysys(n) ==
    /\ prog = "analysys"
    /\ cache_file \in CacheFiles(n)
    /\ items_file \in ItemsFiles(n)
    /\ cache = EmptyMap
    /\ cache0 = EmptyMap
    /\ all_tasks = <<>>
    /\ mpc = "import"
    /\ tpc = <<>>
    /\ current_delay = <<>>
    /\ orders = <<>>
    /\ task_result = <<>>
    /\ results = <<>>
    /\ filtered_results = <<>>
    /\ processed_items_count = 0
    /\ new_tasks = <<>>
    /\ output = Unwritten
    /\ error = NoError
    /\ requested = {}

\* The process is killed while a batch is running (at any point, also between the open
\* of line 86, which truncates CACHE_FILE, and the end of json.dump at line 87) and the
\* script is started again: what is in memory is lost, the files stay as they are, and
\* lines 33-42 load the cache from what the file holds now.
CrashRestart ==
    /\ prog = "analysys"
    /\ mpc \in {"gather", "sleep10"}
    /\ cache_file.state # "unreadable"
    /\ cache' = LoadedCache(cache_file)
    /\ cache0' = LoadedCache(cache_file)
    /\ all_tasks' = <<>>
    /\ mpc' = "main"
    /\ tpc' = <<>>
    /\ current_delay' = <<>>
    /\ orders' = <<>>
    /\ task_result' = <<>>
    /\ results' = <<>>
    /\ filtered_results' = <<>>
    /\ processed_items_count' = 0
    /\ new_tasks' = <<>>
    /\ error' = NoError
    /\ requested' = {}
    /\ UNCHANGED <<cache_file, items_file, output>>
    /\ UNCHANGED <<prog, cvars>>

\* The collector's variables while the order fetcher runs.
CollectorIdle ==
    /\ cmain = "off"
    /\ semaphore = 0
    /\ cpc = <<>>
    /\ attempt = <<>>
    /\ delay = <<>>
    /\ wait = <<>>
    /\ cres = <<>>
    /\ nreq = <<>>
    /\ seen = <<>>
    /\ all_items_data = {}

\* =========================================================================
\*                      WarframeMarketDataCollector.py
\* =========================================================================

Calls == DOMAIN cpc

\* The values of the Retry-After header of a 429 (line 52): absent, read as 1, or a
\* number of seconds, here one beyond max_delay.
RetryAfterValues == {RETRY_AFTER_DEFAULT, max_delay + 1}

\* The order fetcher's variables while the collector runs.
AnalysysIdle ==
    /\ cache_file = Absent
    /\ items_file = [state |-> "missing"]
    /\ cache = EmptyMap
    /\ cache0 = EmptyMap
    /\ all_tasks = <<>>
    /\ mpc = "off"
    /\ tpc = <<>>
    /\ current_delay = <<>>
    /\ orders = <<>>
    /\ task_result = <<>>
    /\ results = <<>>
    /\ filtered_results = <<>>
    /\ processed_items_count = 0
    /\ new_tasks = <<>>
    /\ output = Unwritten
    /\ error = NoError
    /\ requested = {}

\* The state of the collector when its main starts; the API lists n items.
InitCollector(n) ==
    /\ prog = "collector"
    /\ cmain = "init"
    /\ semaphore = 0
    /\ cpc = [c \in 1..n |-> "unborn"]
    /\ attempt = [c \in 1..n |-> 0]
    /\ delay = [c \in 1..n |-> initial_delay]
    /\ wait = [c \in 1..n |-> 0]
    /\ cres = [c \in 1..n |-> NotReturned]
    /\ nreq = [c \in 1..n |-> 0]
    /\ seen = [c \in 1..n |-> {}]
    /\ all_items_data = {}

\* Lines 80-106: main fetches the list of all items (fetch_all_items returns None on an
\* aiohttp.ClientError and main returns) and creates one limited_fetch per item.
CollectorStart ==
    /\ prog = "collector"
    /\ cmain = "init"
    /\ \E listed \in BOOLEAN :
        IF listed
        THEN /\ cmain' = "run"
             /\ cpc' = [c \in Calls |-> "new"]
        ELSE /\ cmain' = "done"
             /\ UNCHANGED cpc
    /\ UNCHANGED <<semaphore, attempt, delay, wait, cres, nreq, seen, all_items_data>>
    /\ UNCHANGED <<prog, avars>>

\* A loop that runs once more than range(retries).
InRangeInclusive(a) == a <= retries

\* Line 48: for attempt in range(retries) goes on while attempt < retries.
InRange(a) == a < retries

\* Lines 102-104 and 45-50: limited_fetch acquires the shared semaphore and calls
\* fetch_item_data, which sets delay and issues the first request (attempt 0).
Acquire(c) ==
    /\ prog = "collector"
    /\ cmain = "run"
    /\ cpc[c] = "new"
    /\ semaphore < SEMAPHORE_SIZE
    /\ delay' = [delay EXCEPT ![c] = initial_delay]
    /\ attempt' = [attempt EXCEPT ![c] = 0]
    /\ IF InRange(0)
       THEN /\ cpc' = [cpc EXCEPT ![c] = "http"]
            /\ nreq' = [nreq EXCEPT ![c] = @ + 1]
            /\ semaphore' = semaphore + 1
            /\ UNCHANGED cres
       ELSE /\ cpc' = [cpc EXCEPT ![c] = "done"]
            /\ cres' = [cres EXCEPT ![c] = None]
            /\ UNCHANGED <<nreq, semaphore>>
    /\ UNCHANGED <<cmain, wait, seen, all_items_data>>
    /\ UNCHANGED <<prog, avars>>

\* Lines 53, 67, 71: the doubled delay, capped.
DoubledDelay(d) == Min(d * 2, max_delay)

\* Line 55: on a 429 the call sleeps the server's Retry-After, not delay.
SleepOn429(retry_after, d) == retry_after

\* Lines 51-56: a 429 with a Retry-After the code can read: delay is doubled and the
\* call sleeps retry_after seconds, inside the semaphore.
CRespondTooManyRequests(c) ==
    /\ prog = "collector"
    /\ cpc[c] = "http"
    /\ \E retry_after \in RetryAfterValues :
        wait' = [wait EXCEPT ![c] = SleepOn429(retry_after, DoubledDelay(delay[c]))]
    /\ delay' = [delay EXCEPT ![c] = DoubledDelay(delay[c])]
    /\ seen' = [seen EXCEPT ![c] = @ \cup {"429"}]
    /\ cpc' = [cpc EXCEPT ![c] = "sleep"]
    /\ UNCHANGED <<cmain, semaphore, attempt, cres, nreq, all_items_data>>
    /\ UNCHANGED <<prog, avars>>

\* The failures fetch_item_data retries: an aiohttp.ClientError of session.get or of
\* raise_for_status (lines 65-68), a JSONDecodeError (lines 69-72).
RetriedErrors == {"http_error", "client_error", "decode"}

\* Lines 65-72: delay is doubled and the call sleeps delay seconds.
CRespondRetried(c) ==
    /\ prog = "collector"
    /\ cpc[c] = "http"
    /\ \E kind \in RetriedErrors :
        seen' = [seen EXCEPT ![c] = @ \cup {"error"}]
    /\ delay' = [delay EXCEPT ![c] = DoubledDelay(delay[c])]
    /\ wait' = [wait EXCEPT ![c] = DoubledDelay(delay[c])]
    /\ cpc' = [cpc EXCEPT ![c] = "sleep"]
    /\ UNCHANGED <<cmain, semaphore, attempt, cres, nreq, all_items_data>>
    /\ UNCHANGED <<prog, avars>>

\* Lines 57-64, 73-75 and 103: a 200 that ends the call: item_data is returned, which is
\* None when the JSON holds no payload.item; a KeyError or TypeError returns None.
\* Leaving limited_fetch's `async with` releases the permit.
CRespondReturn(c) ==
    /\ prog = "collector"
    /\ cpc[c] = "http"
    /\ \E kind \in {"item", "no_item", "shape"} :
        /\ seen' = [seen EXCEPT ![c] = @ \cup {IF kind = "item" THEN "ok" ELSE "empty"}]
        /\ cres' = [cres EXCEPT ![c] = IF kind = "item" THEN [url_name |-> c] ELSE None]
    /\ cpc' = [cpc EXCEPT ![c] = "done"]
    /\ semaphore' = semaphore - 1
    /\ UNCHANGED <<cmain, attempt, delay, wait, nreq, all_items_data>>
    /\ UNCHANGED <<prog, avars>>

\* A failure no except clause of fetch_item_data names: asyncio.TimeoutError, or the
\* ValueError of int() on a Retry-After that is an HTTP date (line 52). The exception
\* leaves fetch_item_data and limited_fetch, which releases the permit; main's handler
\* of line 115 logs it.
CRespondRaise(c) ==
    /\ prog = "collector"
    /\ cpc[c] = "http"
    /\ \E kind \in {"timeout", "429_date"} :
        /\ seen' = [seen EXCEPT ![c] = @ \cup {"raise"}]
        /\ cres' = [cres EXCEPT ![c] = [raised |-> TRUE]]
    /\ cpc' = [cpc EXCEPT ![c] = "done"]
    /\ semaphore' = semaphore - 1
    /\ UNCHANGED <<cmain, attempt, delay, wait, nreq, all_items_data>>
    /\ UNCHANGED <<prog, avars>>

\* Lines 48-50, 76-77, 103: the sleep is over and the loop takes its next attempt:
\* another request, or, the range exhausted, the error of line 76 and None.
CWake(c) ==
    /\ prog = "collector"
    /\ cpc[c] = "sleep"
    /\ attempt' = [attempt EXCEPT ![c] = @ + 1]
    /\ wait' = [wait EXCEPT ![c] = 0]
    /\ IF InRange(attempt[c] + 1)
       THEN /\ cpc' = [cpc EXCEPT ![c] = "http"]
            /\ nreq' = [nreq EXCEPT ![c] = @ + 1]
            /\ UNCHANGED <<cres, semaphore>>
       ELSE /\ cpc' = [cpc EXCEPT ![c] = "done"]
            /\ cres' = [cres EXCEPT ![c] = None]
            /\ semaphore' = semaphore - 1
            /\ UNCHANGED nreq
    /\ UNCHANGED <<cmain, delay, seen, all_items_data>>
    /\ UNCHANGED <<prog, avars>>

\* Lines 108-137: main has taken every future of as_completed, kept the item data that
\* are not empty, and written all_items_data.json.
CollectorFinish ==
    /\ prog = "collector"
    /\ cmain = "run"
    /\ \A c \in Calls : cpc[c] = "done"
    /\ all_items_data' = {c \in Calls : cres[c] = [url_name |-> c]}
    /\ cmain' = "done"
    /\ UNCHANGED <<semaphore, cpc, attempt, delay, wait, cres, nreq, seen>>
    /\ UNCHANGED <<prog, avars>>

NextCollector ==
    \/ CollectorStart
    \/ CollectorFinish
    \/ \E c \in Calls : Acquire(c)
    \/ \E c \in Calls : CRespondTooManyRequests(c)
    \/ \E c \in Calls : CRespondRetried(c)
    \/ \E c \in Calls : CRespondReturn(c)
    \/ \E c \in Calls : CRespondRaise(c)
    \/ \E c \in Calls : CWake(c)

\* =========================================================================
\*                             specifications
\* =========================================================================

NextAnalysys ==
    \/ Import
    \/ MainStart
    \/ GatherDone
    \/ RetryRound
    \/ \E t \in Tasks : StartTask(t)
    \/ \E t \in Tasks : Request(t)
    \/ \E t \in Tasks : RespondOrders(t)
    \/ \E t \in Tasks : RespondTooManyRequests(t)
    \/ \E t \in Tasks : PauseOver(t)
    \/ \E t \in Tasks : RespondFailure(t)
    \/ \E t \in Tasks : PutOpen(t)
    \/ \E t \in Tasks : PutDump(t)

\* A run of one of the two scripts.
Init ==
    \/ InitAnalysys(NumItems) /\ CollectorIdle
    \/ InitCollector(NumCalls) /\ AnalysysIdle
Next ==
    \/ NextAnalysys
    \/ NextCollector
Spec == Init /\ [][Next]_vars

\* The order fetcher on an input of one item more than CONCURRENT_REQUESTS, a fresh
\* cache and a server that does not throttle.
InitPermits ==
    /\ InitAnalysys(CONCURRENT_REQUESTS + 1)
    /\ cache_file = Absent
    /\ items_file.state = "valid"
    /\ CollectorIdle
NextPermits ==
    \/ Import
    \/ MainStart
    \/ GatherDone
    \/ RetryRound
    \/ \E t \in Tasks : StartTask(t)
    \/ \E t \in Tasks : Request(t)
    \/ \E t \in Tasks : RespondOrders(t)
    \/ \E t \in Tasks : RespondFailure(t)
    \/ \E t \in Tasks : PutOpen(t)
    \/ \E t \in Tasks : PutDump(t)
SpecPermits == InitPermits /\ [][NextPermits]_vars

\* Either script on a single key, under the scheduling asyncio gives: the event loop
\* runs every task that is ready, every sleep ends and every request is answered (by a
\* response or by an error), so a step that stays possible is taken.
InitSingle ==
    \/ InitAnalysys(1) /\ CollectorIdle
    \/ InitCollector(1) /\ AnalysysIdle
FairSpec == InitSingle /\ [][Next]_vars /\ WF_vars(Next)

\* The order fetcher with kills and restarts: any run in progress may be killed and the
\* script started again on the files the killed run left.
InitCrash == InitAnalysys(NumItems) /\ CollectorIdle
NextCrash ==
    \/ NextAnalysys
    \/ CrashRestart
SpecCrash == InitCrash /\ [][NextCrash]_vars

\* =========================================================================
\*                               properties
\* =========================================================================

\* ---------------------------------------------------------------- C1
\* C1: at no point do more than CONCURRENT_REQUESTS fetch_data calls hold a permit,
\* that is, are inside the semaphore-guarded section.
C1_PermitPool ==
    Cardinality({t \in Tasks : InSection(t)}) <= CONCURRENT_REQUESTS

\* ---------------------------------------------------------------- C2
\* C2: a key that is in the cache when the run starts is never requested from the
\* network, and get_item_orders returns its cached payload.
C2_CachedKeyNotFetched ==
    \A t \in Tasks :
        all_tasks[t] \in DOMAIN cache0 =>
            /\ all_tasks[t] \notin requested
            /\ tpc[t] \in {"new", "done"}
            /\ orders[t] # NotReturned => orders[t] = cache0[all_tasks[t]]

\* A cached key has been served from the cache while another key was being fetched.
C2_Witness ==
    \E t \in Tasks :
        /\ all_tasks[t] \in DOMAIN cache0
        /\ tpc[t] = "done"
        /\ orders[t] = cache0[all_tasks[t]]
        /\ \E u \in Tasks : tpc[u] = "http"

\* ---------------------------------------------------------------- C3
\* C3: no fetch retries forever: every call of fetch_data that has entered its
\* semaphore-guarded section eventually leaves it with an outcome, and every call of
\* fetch_item_data that has issued a request eventually returns, whatever the server
\* answers.
C3_EveryFetchReturns ==
    /\ \A t \in 1..NumItems :
        (t \in Tasks /\ InSection(t)) ~> (t \in Tasks /\ ~InSection(t))
    /\ \A c \in 1..NumCalls :
        (c \in Calls /\ cpc[c] \in {"http", "sleep"}) ~> (c \in Calls /\ cpc[c] = "done")

\* ---------------------------------------------------------------- C4
\* A round of main has ended with a key whose processing failed.
SomeKeyFailed == \E i \in DOMAIN results : results[i] = None
SomeKeySucceeded == \E i \in DOMAIN results : results[i] # None

\* C4: with a key that fails, main's round loop ends and main finishes normally: no
\* exception reaches its handlers and the results of the other keys are written out.
C4_ZeroProgressTermination ==
    (mpc = "done" /\ SomeKeyFailed) => (error = NoError /\ output.written)

\* ---------------------------------------------------------------- C5
\* C5: the failure of one key does not lose the results of the others: when main has
\* ended after a round in which a key failed and others succeeded, orders_data.json
\* holds every result that succeeded.
C5_FailureDoesNotAbortBatch ==
    (mpc = "done" /\ SomeKeyFailed /\ SomeKeySucceeded) =>
        /\ output.written
        /\ \A i \in DOMAIN results :
            results[i] # None => results[i] \in Range(output.data)

\* ---------------------------------------------------------------- C6
\* The keys still to be dispatched: all of them until the first gather has returned,
\* then those whose result is None.
PendingKeys ==
    IF mpc \in {"import", "main", "gather", "fatal"} \/ results = <<>>
    THEN Range(all_tasks)
    ELSE {all_tasks[i] : i \in {j \in DOMAIN results : results[j] = None}}
SucceededKeys == {filtered_results[i].item_name : i \in DOMAIN filtered_results}

\* C6: at every point of the run each key of the task set is either pending or
\* recorded once in filtered_results, never both, and no succeeded key is among the
\* tasks main collects for a retry.
C6_PendingSucceededPartition ==
    /\ PendingKeys \cap SucceededKeys = {}
    /\ PendingKeys \cup SucceededKeys = Range(all_tasks)
    /\ \A i, j \in DOMAIN filtered_results :
        filtered_results[i] = filtered_results[j] => i = j
    /\ Range(new_tasks) \cap SucceededKeys = {}
    /\ Range(new_tasks) \subseteq PendingKeys

\* main has collected the failed task of a round in which another key succeeded.
C6_Witness ==
    /\ new_tasks # <<>>
    /\ filtered_results # <<>>
    /\ PendingKeys # {}

\* ---------------------------------------------------------------- C7
\* What a fetch_data call of task t is waiting out: its current_delay (line 57) or the
\* 60 s pause (line 69).
Waiting(t) ==
    IF tpc[t] = "sleep" THEN current_delay[t]
    ELSE IF tpc[t] = "pause" THEN PAUSE ELSE 0

\* What the call had waited before the response it has just received.
Waited(t) ==
    IF tpc[t] = "pause" THEN PAUSE ELSE current_delay[t]

\* C7 as claimed: along consecutive 429 responses the time the fetcher waits before
\* its next attempt never decreases and never exceeds the maximum, MAX_DELAY for
\* fetch_data and max_delay for fetch_item_data (whose waits are the server's hints,
\* non-decreasing by the claim's premise).
C7_WaitsMonotoneAndCapped ==
    [][/\ \A t \in Tasks :
            (tpc[t] \in {"http", "pause"} /\ tpc'[t] \in {"sleep", "pause"}) =>
                /\ Waiting(t)' >= Waited(t)
                /\ Waiting(t)' <= MAX_DELAY
       /\ \A c \in Calls :
            (cpc[c] = "http" /\ cpc'[c] = "sleep" /\ seen'[c] = {"429"}) =>
                wait'[c] <= max_delay]_vars

\* C7 as amended: the backoff delay the fetcher keeps (current_delay, delay) never
\* exceeds its maximum and never decreases, except that fetch_data, after the pause it
\* takes on a 429 at MAX_DELAY, starts again from INITIAL_DELAY; what fetch_item_data
\* sleeps is that delay after a retried error and the Retry-After value after a 429.
C7_BackoffDelay ==
    [][/\ \A t \in Tasks :
            /\ current_delay'[t] <= MAX_DELAY
            /\ \/ current_delay'[t] >= current_delay[t]
               \/ /\ tpc[t] = "pause"
                  /\ current_delay[t] = MAX_DELAY
                  /\ current_delay'[t] = INITIAL_DELAY
            /\ tpc'[t] = "pause" => current_delay[t] = MAX_DELAY
       /\ \A c \in Calls :
            /\ delay'[c] <= max_delay
            /\ delay'[c] >= delay[c]
            /\ (cpc[c] = "http" /\ cpc'[c] = "sleep") =>
                /\ delay'[c] = Min(2 * delay[c], max_delay)
                /\ wait'[c] \in RetryAfterValues \cup {delay'[c]}]_vars

\* A fetch_data call has been answered 429 up to MAX_DELAY and once more.
C7_Witness == \E t \in Tasks : tpc[t] = "pause" /\ current_delay[t] = MAX_DELAY

\* ---------------------------------------------------------------- C8
\* C8: a call of fetch_item_data that has received nothing but 429 responses does not
\* return the failure outcome None. (fetch_data returns None only in RespondFailure,
\* on a response that is not a 429.)
C8_RateLimitNeverSurfaced ==
    \A c \in Calls : (cpc[c] = "done" /\ seen[c] = {"429"}) => cres[c] # None

\* ---------------------------------------------------------------- C9
\* C9: a call of fetch_item_data whose every attempt met a decode or network failure
\* has issued exactly retries requests and returned None; its counters are its own:
\* no call issues more than retries requests whatever the other calls do, and a call
\* awaiting a response has issued one request per attempt of its own loop.
C9_RetryCeiling ==
    \A c \in Calls :
        /\ nreq[c] <= retries
        /\ cpc[c] = "http" => nreq[c] = attempt[c] + 1
        /\ (cpc[c] = "done" /\ seen[c] = {"error"}) =>
            (nreq[c] = retries /\ cres[c] = None)

\* One call has exhausted its attempts on errors while another is at its first request.
C9_Witness ==
    \E c, d \in Calls :
        /\ cpc[c] = "done" /\ seen[c] = {"error"} /\ nreq[c] = retries
        /\ cpc[d] = "http" /\ nreq[d] = 1

\* ---------------------------------------------------------------- C10
\* get_item_orders has returned to task t a payload it fetched from the network.
Fresh(t) ==
    /\ tpc[t] = "done"
    /\ orders[t] \in Payloads
    /\ all_tasks[t] \in requested

\* The file holds the in-memory map (an absent file holds what an empty map does).
StoreEqualsCache ==
    \/ cache_file = Valid(cache)
    \/ cache_file = Absent /\ cache = EmptyMap

\* The program has loaded its cache and no cache write is in progress.
Quiescent == mpc \in {"main", "gather", "sleep10", "done"} /\ ~Writing

C11_CrashSafety ==
    [][(mpc \in {"gather", "sleep10"} /\ mpc' = "main") =>
          \A t \in Tasks : Fresh(t) =>
              /\ all_tasks[t] \in DOMAIN cache'
              /\ cache'[all_tasks[t]] = orders[t]]_vars

\* ---------------------------------------------------------------- C12
\* C12: while one get_item_orders call is between its update of the in-memory map and
\* the end of its rewrite of the file, the only steps taken are that call's own: no
\* other task moves, the map is not updated again, and the rewrite ends with the file
\* holding the map.
C12_SingleWriter ==
    [][\A t \in Tasks : tpc[t] \in {"put", "dump"} =>
          /\ \A u \in Tasks \ {t} : tpc'[u] = tpc[u]
          /\ cache' = cache
          /\ tpc[t] = "put" => (tpc'[t] = "dump" /\ cache_file' = Corrupt)
          /\ tpc[t] = "dump" => (tpc'[t] = "done" /\ cache_file' = Valid(cache))]_vars

\* A call is rewriting the file while another call's request is still unanswered.
C12_Witness ==
    \E t, u \in Tasks :
        /\ t # u
        /\ tpc[t] = "dump"
        /\ tpc[u] = "http"

\* ---------------------------------------------------------------- C13
\* C13: every entry of the cache, in memory and in the file, is an orders payload, and
\* it is either the entry loaded at startup or the payload a request for that key was
\* answered with; a key whose fetch failed has no entry.
C13_OnlySuccessfulPayloads ==
    /\ \A k \in DOMAIN cache :
        /\ cache[k] \in Payloads
        /\ \/ k \in DOMAIN cache0 /\ cache[k] = cache0[k]
           \/ \E t \in Tasks :
                /\ all_tasks[t] = k
                /\ k \in requested
                /\ orders[t] = cache[k]
    /\ cache_file.state = "valid" =>
        \A k \in DOMAIN cache_file.data : cache_file.data[k] \in Payloads
    /\ \A t \in Tasks : orders[t] = None => all_tasks[t] \notin DOMAIN cache

\* One key was fetched and written through, the fetch of another has failed.
C13_Witness ==
    \E t, u \in Tasks :
        /\ Fresh(t)
        /\ tpc[u] = "done"
        /\ orders[u] = None
        /\ all_tasks[u] \in requested
        /\ cache_file = Valid(cache)
        /\ all_tasks[t] \in DOMAIN cache

\* ---------------------------------------------------------------- C14
\* C14: whatever the state of the cache file at startup (absent, valid, corrupt,
\* unreadable), the load ends with a usable cache, which is empty unless the file is
\* valid, and the program goes on to main: the load never ends the program.
C14_LoadNeverFatal ==
    /\ mpc # "fatal"
    /\ error # "OSError"
    /\ mpc = "main" => cache = LoadedCache(cache_file)

\* ---------------------------------------------------------------- C15
\* C15: the step that starts a retry round selects the tasks of exactly the keys whose
\* result in the preceding round was None, and dispatches exactly those: after the step
\* each of them is running again, every other task stays finished, and main has not
\* ended with an error.
C15_RetryResubmitsFailed ==
    [][(mpc = "sleep10" /\ mpc' # "sleep10") =>
          /\ Range(new_tasks') = {all_tasks[t] : t \in {u \in Tasks : results[u] = None}}
          /\ \A t \in Tasks : results[t] = None <=> tpc'[t] # "done"
          /\ error' = NoError]_vars

\* ---------------------------------------------------------------- C16
\* C16: fetch_data answers a 429 in two tiers. Below MAX_DELAY it sleeps and tries again
\* with min(2 * current_delay, MAX_DELAY); at MAX_DELAY it takes the fixed pause
\* instead, and after the pause it tries again with INITIAL_DELAY. So an attempt made at
\* MAX_DELAY is never followed by another attempt at MAX_DELAY.
C16_TwoTierBackoff ==
    [][\A t \in Tasks :
          /\ (tpc[t] = "http" /\ tpc'[t] = "sleep") =>
                /\ current_delay[t] < MAX_DELAY
                /\ current_delay'[t] = Min(2 * current_delay[t], MAX_DELAY)
          /\ (tpc[t] = "http" /\ tpc'[t] = "pause") =>
                /\ current_delay[t] = MAX_DELAY
                /\ current_delay'[t] = MAX_DELAY
                /\ Waiting(t)' = PAUSE
          /\ (tpc[t] = "pause" /\ tpc'[t] # "pause") =>
                /\ tpc'[t] = "sleep"
                /\ current_delay'[t] = INITIAL_DELAY
          /\ (tpc[t] = "sleep" /\ tpc'[t] = "http") =>
                current_delay'[t] = current_delay[t]]_vars

\* A fetch_data call has paused at MAX_DELAY and is about to try again at INITIAL_DELAY.
C16_Witness ==
    \E t \in Tasks :
        /\ tpc[t] = "sleep"
        /\ all_tasks[t] \in requested
        /\ current_delay[t] = INITIAL_DELAY

\* ---------------------------------------------------------------- C17
\* C17: a fetch that is sleeping after a 429 or a retried failure holds no permit: the permits of the collector's semaphore that are taken are
\* those of the calls whose request is in flight, and no fetch_data call sleeps or
\* pauses inside its semaphore-guarded section.
C17_SleepHoldsNoPermit ==
    /\ semaphore = Cardinality({c \in Calls : cpc[c] = "http"})
    /\ \A t \in Tasks :
        (tpc[t] \in {"sleep", "pause"} /\ all_tasks[t] \in requested) => ~InSection(t)

\* ---------------------------------------------------------------- C18
\* C18: a call of fetch_item_data ends with the failure outcome None only after it has
\* issued retries requests, and never by an exception that leaves the fetcher.
C18_FailuresRetriedToCeiling ==
    \A c \in Calls :
        cpc[c] = "done" =>
            /\ cres[c] # [raised |-> TRUE]
            /\ cres[c] = None => nreq[c] = retries

\* ---------------------------------------------------------------- C19
\* C19: when get_item_orders has returned orders for every key of the first round (from
\* the network or from the cache), also orders with nobody online or without buy or
\* sell prices, main starts no retry round: it leaves the loop with nothing selected
\* for retry, without error, and writes its output.
C19_ConvergesWhenAllFetched ==
    (/\ mpc \in {"sleep10", "done"}
     /\ Tasks # {}
     /\ \A t \in Tasks : orders[t] \in Payloads) =>
        /\ mpc = "done"
        /\ new_tasks = <<>>
        /\ error = NoError
        /\ output.written

==========================================================================
